---- MODULE Spec2Model ----
(***************************************************************************)
(* termimgview: the rendering pipeline of src/processing.rs and            *)
(* src/rendering.rs.                                                       *)
(*                                                                         *)
(*   - characters are Unicode code points (Rust char), text is a sequence  *)
(*     of code points (Vec<char>);                                         *)
(*   - Rgb<u8> is <<r, g, b>>, Rgba<u8> is <<r, g, b, a>> (p[0]..p[3] of   *)
(*     the source are p[1]..p[4] here);                                    *)
(*   - Option<T> is a sequence of length 0 (None) or 1 (Some(v));          *)
(*   - f32 arithmetic is IEEE-754 binary32, round to nearest even, on the  *)
(*     non-negative normal values the program computes: a value is         *)
(*     <<m, e>> = m * 2^e with 2^23 <= m < 2^24, or <<0, 0>> for 0.0.      *)
(***************************************************************************)
EXTENDS Integers, Sequences, FiniteSets, TLC

VARIABLES
    img,               \* the image: [w, h, px], px[<<x, y>>] an Rgba<u8>
    shading,           \* the ShadeMethod: [kind, map]
    x, y,              \* loop counters of display_stream_*
    pc,                \* position of the running function
    buffer,            \* LineRenderer.buffer
    current_color,     \* LineRenderer.current_color
    current_bg_color,  \* LineRenderer.current_bg_color
    out,               \* the sink: the lines written so far
    partial,           \* the sink: what a failed write left behind
    status,            \* the Result of display_stream_*: running / ok / err
    cells,             \* history: the cells fed to add in the current row
    rows,              \* history: the cells of every row handed to the sink
    reads,             \* history: the coordinates given to get_pixel
    attempts,          \* history: the writes attempted, [row, ok]
    arg,               \* the argument of a pure function under check
    ret                \* its result

vars == <<img, shading, x, y, pc, buffer, current_color, current_bg_color,
          out, partial, status, cells, rows, reads, attempts, arg, ret>>

render_vars == <<buffer, current_color, current_bg_color>>

----------------------------------------------------------------------------
(* Bounds of the model *)

MaxW == 2
MaxH == 5
MaxCells == 3

----------------------------------------------------------------------------
(* Option<T> *)

None == <<>>
Some(v) == <<v>>
is_some(o) == Len(o) = 1
unwrap(o) == o[1]

Min(a, b) == IF a <= b THEN a ELSE b

----------------------------------------------------------------------------
(* f32: IEEE-754 binary32 on non-negative normal values *)

Pow2(n) == 2 ^ n

F32Zero == <<0, 0>>

RECURSIVE F32Norm(_, _)
\* m * 2^e with 0 < m < 2^24, shifted left until the mantissa has 24 bits.
F32Norm(m, e) == IF m >= Pow2(23) THEN <<m, e>> ELSE F32Norm(2 * m, e - 1)

\* `n as f32` for an integer 0 <= n < 2^24 (exact).
F32FromInt(n) == IF n = 0 THEN F32Zero ELSE F32Norm(n, 0)

\* Round to nearest, ties to even.  m is the 24-bit truncated mantissa, r says
\* where the discarded part lies: 0 nothing discarded, 1 below half an ulp,
\* 2 exactly half, 3 above half.
F32Round(m, e, r) ==
    LET up == r = 3 \/ (r = 2 /\ m % 2 = 1)
        m1 == IF up THEN m + 1 ELSE m
    IN  IF m1 = Pow2(24) THEN <<Pow2(23), e + 1>> ELSE <<m1, e>>

RemClass(rem, half) ==
    IF rem = 0 THEN 0 ELSE IF rem < half THEN 1 ELSE IF rem = half THEN 2 ELSE 3

\* a * b.  The 48-bit product of the mantissas is built from 12-bit limbs.
F32Mul(a, b) ==
    IF a[1] = 0 \/ b[1] = 0 THEN F32Zero
    ELSE LET ah == a[1] \div 4096
             al == a[1] % 4096
             bh == b[1] \div 4096
             bl == b[1] % 4096
             p0 == al * bl
             p1 == ah * bl + al * bh
             p2 == ah * bh
             lo == p0 + (p1 % 4096) * 4096
             low24 == lo % Pow2(24)
             hi == p2 + (p1 \div 4096) + (lo \div Pow2(24))
         IN  IF hi >= Pow2(23)
             THEN F32Round(hi, a[2] + b[2] + 24, RemClass(low24, Pow2(23)))
             ELSE F32Round(2 * hi + (low24 \div Pow2(23)), a[2] + b[2] + 23,
                           RemClass(low24 % Pow2(23), Pow2(22)))

\* a + b.  The smaller operand is shifted right with guard, round and sticky
\* bits.
F32Add(a, b) ==
    IF a[1] = 0 THEN b
    ELSE IF b[1] = 0 THEN a
    ELSE LET big == IF a[2] >= b[2] THEN a ELSE b
             sml == IF a[2] >= b[2] THEN b ELSE a
             d == big[2] - sml[2]
             s8 == sml[1] * 8
             sh == IF d >= 27 THEN 0 ELSE s8 \div Pow2(d)
             lost == IF d >= 27 THEN TRUE ELSE s8 % Pow2(d) # 0
             B == IF lost /\ sh % 2 = 0 THEN sh + 1 ELSE sh
             S == big[1] * 8 + B
             carry == S >= Pow2(27)
             S1 == IF carry
                   THEN (S \div 2) + (IF S % 2 = 1 /\ (S \div 2) % 2 = 0 THEN 1 ELSE 0)
                   ELSE S
             e1 == IF carry THEN big[2] + 1 ELSE big[2]
         IN  F32Round(S1 \div 8, e1, RemClass(S1 % 8, 4))

RECURSIVE F32DivBits(_, _, _, _)
\* n more quotient bits of rem / b by long division: <<quotient, remainder>>.
F32DivBits(q, rem, b, n) ==
    IF n = 0 THEN <<q, rem>>
    ELSE IF 2 * rem >= b
         THEN F32DivBits(2 * q + 1, 2 * rem - b, b, n - 1)
         ELSE F32DivBits(2 * q, 2 * rem, b, n - 1)

\* a / b, b > 0.
F32Div(a, b) ==
    IF a[1] = 0 THEN F32Zero
    ELSE LET ge == a[1] >= b[1]
             qr == IF ge THEN F32DivBits(1, a[1] - b[1], b[1], 23)
                         ELSE F32DivBits(0, a[1], b[1], 24)
             e == IF ge THEN a[2] - b[2] - 23 ELSE a[2] - b[2] - 24
         IN  F32Round(qr[1], e, RemClass(2 * qr[2], b[1]))

\* `v as usize`, `v as u8` before saturation: the integer part of v < 2^24.
F32Trunc(v) ==
    IF v[1] = 0 \/ v[2] <= -24 THEN 0
    ELSE IF v[2] >= 0 THEN v[1] * Pow2(v[2])
    ELSE v[1] \div Pow2(-v[2])

\* f32::round: to the nearest integer, ties away from zero.
F32RoundInt(v) ==
    IF v[1] = 0 \/ v[2] <= -25 THEN 0
    ELSE IF v[2] >= 0 THEN v[1] * Pow2(v[2])
    ELSE LET k == Pow2(-v[2])
         IN  (v[1] \div k) + (IF 2 * (v[1] % k) >= k THEN 1 ELSE 0)

\* The literal `n / 10^4` of the source, as the f32 nearest to it.
F32Lit4(n) == F32Div(F32FromInt(n), F32FromInt(10000))

\* `v as u8`: saturating.
as_u8(n) == Min(n, 255)

----------------------------------------------------------------------------
(* src/processing.rs *)

\* char::len_utf8: the number of bytes of a code point in UTF-8.
len_utf8(c) == IF c < 128 THEN 1 ELSE IF c < 2048 THEN 2 ELSE IF c < 65536 THEN 3 ELSE 4

RECURSIVE str_len(_)
\* str::len: the length of a string in BYTES.
str_len(s) == IF s = <<>> THEN 0 ELSE len_utf8(Head(s)) + str_len(Tail(s))

\* " .-:=+*#%@"
RAMP_ASCII == <<32, 46, 45, 58, 61, 43, 42, 35, 37, 64>>
\* " ░▒▓█"
RAMP_BLOCKS == <<32, 9617, 9618, 9619, 9608>>
\* " ▄▀█"
RAMP_HALF == <<32, 9604, 9600, 9608>>

Ascii == [kind |-> "Ascii", map |-> None]
Blocks == [kind |-> "Blocks", map |-> None]
Half == [kind |-> "Half", map |-> None]
Custom(m) == [kind |-> "Custom", map |-> m]

\* SHADE_METHOD[i].1 (the fourth entry, Custom(None), is only a help text).
SHADE_METHOD == <<RAMP_ASCII, RAMP_BLOCKS, RAMP_HALF>>

\* The f32 literals 0.2126, 0.7152, 0.0722 and 255.0.
LUMA_R == F32Lit4(2126)
LUMA_G == F32Lit4(7152)
LUMA_B == F32Lit4(722)
F255 == F32FromInt(255)

\* grayscale_value: round(r * 0.2126 + g * 0.7152 + b * 0.0722) in f32, as u8.
grayscale_value(pixel) ==
    as_u8(F32RoundInt(
        F32Add(F32Add(F32Mul(F32FromInt(pixel[1]), LUMA_R),
                      F32Mul(F32FromInt(pixel[2]), LUMA_G)),
               F32Mul(F32FromInt(pixel[3]), LUMA_B))))

\* The index of a ramp that runs from light to dark.
shade_index_inverted(gray, shade_map) ==
    F32Trunc(F32Mul(F32Div(F32FromInt(255 - gray), F255),
                    F32FromInt(str_len(shade_map))))

\* `(gray as f32 / 255.0 * (shade_map.len() as f32)) as usize`
shade_index(gray, shade_map) ==
    F32Trunc(F32Mul(F32Div(F32FromInt(gray), F255),
                    F32FromInt(str_len(shade_map))))

\* `shade_map.chars().nth(i)`: the i-th CHARACTER, None past the end.
chars_nth(s, i) == IF i < Len(s) THEN Some(s[i + 1]) ELSE None

\* `o.unwrap_or(d)`
unwrap_or(o, d) == IF is_some(o) THEN unwrap(o) ELSE d

\* `shade_map.chars().last().unwrap()` (panics on the empty string, which
\* args() rejects).
chars_last(s) == s[Len(s)]

\* The closure shade_ascii of shade, on the luminance it computes.
shade_ascii(gray, shade_map) ==
    unwrap_or(chars_nth(shade_map, shade_index(gray, shade_map)), chars_last(shade_map))

\* The ramp shade selects for a method (Half panics: never passed by display).
shade_map_of(shade_method) ==
    CASE shade_method.kind = "Ascii" -> SHADE_METHOD[1]
      [] shade_method.kind = "Blocks" -> SHADE_METHOD[2]
      [] shade_method.kind = "Custom" -> unwrap(shade_method.map)

shade(pixel, shade_method) ==
    shade_ascii(grayscale_value(pixel), shade_map_of(shade_method))

\* rgba_to_rgb: every channel times a = alpha / 255.0, truncated.
rgba_to_rgb(p) ==
    LET a == F32Div(F32FromInt(p[4]), F255)
    IN  << as_u8(F32Trunc(F32Mul(F32FromInt(p[1]), a))),
           as_u8(F32Trunc(F32Mul(F32FromInt(p[2]), a))),
           as_u8(F32Trunc(F32Mul(F32FromInt(p[3]), a))) >>

\* The local `dist` of color_distance: the squared distance, exact in f32
\* (at most 3 * 255^2 < 2^24).
color_distance_sq(a, b) ==
    (a[1] - b[1]) * (a[1] - b[1]) + (a[2] - b[2]) * (a[2] - b[2])
        + (a[3] - b[3]) * (a[3] - b[3])

\* `color_distance(a, b) < t` for an integer t: dist.sqrt() is the correctly
\* rounded square root, so it is below t exactly when dist is below t * t.
color_distance_lt(a, b, t) == color_distance_sq(a, b) < t * t

TRANSPARENT == <<0, 0, 0, 0>>

is_transparent(pixel) == pixel[4] = TRANSPARENT[4]

----------------------------------------------------------------------------
(* src/rendering.rs: the escape sequences and the LineRenderer *)

RECURSIVE fmt_u8(_)
\* `{}` of a u8: its decimal digits.
fmt_u8(n) == IF n < 10 THEN <<48 + n>> ELSE fmt_u8(n \div 10) \o <<48 + (n % 10)>>

\* image_to_crossterm_color: Color::Rgb { r: pixel[0], g: pixel[1], b: pixel[2] }
image_to_crossterm_color(pixel) == [r |-> pixel[1], g |-> pixel[2], b |-> pixel[3]]

\* `{}` of style::ResetColor: ESC [ 0 m
ResetColor == <<27, 91, 48, 109>>

\* `r;g;b` of a Color::Rgb
fmt_rgb(c) == fmt_u8(c.r) \o <<59>> \o fmt_u8(c.g) \o <<59>> \o fmt_u8(c.b)

\* `{}` of style::SetForegroundColor(c): ESC [ 3 8 ; 2 ; r ; g ; b m
SetForegroundColor(c) == <<27, 91, 51, 56, 59, 50, 59>> \o fmt_rgb(c) \o <<109>>

\* `{}` of style::SetBackgroundColor(c): ESC [ 4 8 ; 2 ; r ; g ; b m
SetBackgroundColor(c) == <<27, 91, 52, 56, 59, 50, 59>> \o fmt_rgb(c) \o <<109>>

\* LineRenderer::new
new == [buffer |-> <<>>, current_color |-> None, current_bg_color |-> None]

\* LineRenderer::clear that only empties the buffer.
clear_buffer_only(self) == [self EXCEPT !.buffer = <<>>]

\* LineRenderer::clear
clear(self) ==
    [self EXCEPT !.buffer = <<>>, !.current_color = None, !.current_bg_color = None]

\* LineRenderer::display: the characters of `{}` of item, appended.
display(self, item) == [self EXCEPT !.buffer = @ \o item]

\* LineRenderer::add that forgets to record the foreground it emitted.
add_untracked(self, chr, color, bg_color) ==
    LET s1 == IF (self.current_color # color \/ self.current_bg_color # bg_color)
                 /\ self.buffer # <<>>
              THEN display(self, ResetColor)
              ELSE self
        s2 == IF is_some(color) /\ s1.current_color # color
              THEN display(s1, SetForegroundColor(image_to_crossterm_color(unwrap(color))))
              ELSE s1
        s3 == IF is_some(bg_color) /\ s2.current_bg_color # bg_color
              THEN [display(s2, SetBackgroundColor(image_to_crossterm_color(unwrap(bg_color))))
                      EXCEPT !.current_bg_color = bg_color]
              ELSE s2
    IN  [s3 EXCEPT !.buffer = Append(@, chr)]

\* LineRenderer::add
add(self, chr, color, bg_color) ==
    LET s1 == IF (self.current_color # color \/ self.current_bg_color # bg_color)
                 /\ self.buffer # <<>>
              THEN display(self, ResetColor)
              ELSE self
        s2 == IF is_some(color) /\ s1.current_color # color
              THEN [display(s1, SetForegroundColor(image_to_crossterm_color(unwrap(color))))
                      EXCEPT !.current_color = color]
              ELSE s1
        s3 == IF is_some(bg_color) /\ s2.current_bg_color # bg_color
              THEN [display(s2, SetBackgroundColor(image_to_crossterm_color(unwrap(bg_color))))
                      EXCEPT !.current_bg_color = bg_color]
              ELSE s2
    IN  [s3 EXCEPT !.buffer = Append(@, chr)]

\* LineRenderer::build: the emitter after it (the reset stays in the buffer);
\* the String it returns is the buffer of that emitter.
build(self) == display(self, ResetColor)

\* `writeln!(out, "{}", s)`: s, then a newline.
writeln(s) == s \o <<10>>

----------------------------------------------------------------------------
(* src/rendering.rs: the cells of display_stream_simple and display_stream_half *)

Cell(chr, color, bg_color) == [chr |-> chr, color |-> color, bg_color |-> bg_color]

\* display_stream_simple, the body of the inner loop: the arguments of add.
simple_cell(pixel, shade_method) ==
    Cell(shade(pixel, shade_method), Some(rgba_to_rgb(pixel)), None)

\* display_stream_half without the test for near-identical colours.
half_cell_no_merge(upper_px, lower_px) ==
    LET upper_is_transparent == is_transparent(upper_px)
        lower_is_transparent == is_transparent(lower_px)
        upper == rgba_to_rgb(upper_px)
        lower == rgba_to_rgb(lower_px)
    IN  IF upper_is_transparent /\ lower_is_transparent
        THEN Cell(32, Some(upper), None)
        ELSE IF lower_is_transparent
        THEN Cell(9600, Some(upper), None)
        ELSE IF upper_is_transparent
        THEN Cell(9604, Some(lower), None)
        ELSE Cell(9600, Some(upper), Some(lower))

\* display_stream_half with the transparency tests before the distance test.
half_cell_reordered(upper_px, lower_px) ==
    LET upper_is_transparent == is_transparent(upper_px)
        lower_is_transparent == is_transparent(lower_px)
        upper == rgba_to_rgb(upper_px)
        lower == rgba_to_rgb(lower_px)
    IN  IF upper_is_transparent /\ lower_is_transparent
        THEN Cell(32, Some(upper), None)
        ELSE IF lower_is_transparent
        THEN Cell(9600, Some(upper), None)
        ELSE IF upper_is_transparent
        THEN Cell(9604, Some(lower), None)
        ELSE IF color_distance_lt(upper, lower, 10)
        THEN Cell(9608, Some(upper), None)
        ELSE Cell(9600, Some(upper), Some(lower))

\* display_stream_half, the body of the inner loop: the arguments of add.
half_cell(upper_px, lower_px) ==
    LET upper_is_transparent == is_transparent(upper_px)
        lower_is_transparent == is_transparent(lower_px)
        upper == rgba_to_rgb(upper_px)
        lower == rgba_to_rgb(lower_px)
    IN  IF upper_is_transparent /\ lower_is_transparent
        THEN Cell(32, Some(upper), None)
        ELSE IF color_distance_lt(upper, lower, 10)
        THEN Cell(9608, Some(upper), None)
        ELSE IF lower_is_transparent
        THEN Cell(9600, Some(upper), None)
        ELSE IF upper_is_transparent
        THEN Cell(9604, Some(lower), None)
        ELSE Cell(9600, Some(upper), Some(lower))

----------------------------------------------------------------------------
(* The inputs of the model *)

\* Pixels the images are made of: opaque white, opaque black, transparent
\* with colour left in the channels, opaque almost-white, half transparent.
Palette ==
    << <<255, 255, 255, 255>>, <<0, 0, 0, 255>>, <<255, 255, 255, 0>>,
       <<250, 252, 255, 255>>, <<200, 100, 50, 128>> >>

Seeds == 0 .. (Len(Palette) - 1)

\* A custom ramp with a two-byte character: " é@"
CUSTOM_RAMP == <<32, 233, 64>>

Methods == {Ascii, Blocks, Half, Custom(Some(CUSTOM_RAMP))}

\* The w * h image whose pixel (px, py) is Palette[(s0 + s1 * px + s2 * py) mod n].
Image(w, h, s0, s1, s2) ==
    [w |-> w, h |-> h,
     px |-> [c \in (0 .. w - 1) \X (0 .. h - 1) |->
                Palette[((s0 + s1 * c[1] + s2 * c[2]) % Len(Palette)) + 1]]]

Images ==
    {Image(w, h, s[1], s[2], s[3]) : w \in 1 .. MaxW, h \in 1 .. MaxH,
                                     s \in Seeds \X Seeds \X Seeds}

----------------------------------------------------------------------------
(* src/rendering.rs: display, display_stream_simple, display_stream_half *)

self == [buffer |-> buffer, current_color |-> current_color,
         current_bg_color |-> current_bg_color]

SetRenderer(r) ==
    /\ buffer' = r.buffer
    /\ current_color' = r.current_color
    /\ current_bg_color' = r.current_bg_color

\* ImageBuffer::get_pixel panics outside the image.
in_bounds(px, py) == px < img.w /\ py < img.h

\* `for y in 0..height`
simple_rows(height) == height

\* `for y in 0..((height + 1) / 2)`
half_rows_rounded_up(height) == (height + 1) \div 2

\* `for y in 0..(height / 2)`
half_rows(height) == height \div 2

\* `img.get_pixel(x, y * 2)` and `img.get_pixel(x, y * 2 + 1)`: the rows read.
upper_row(py) == py * 2
lower_row(py) == py * 2 + 1

Panic ==
    /\ status' = "panic"
    /\ pc' = "done"
    /\ UNCHANGED <<x, y, render_vars, out, partial, cells, rows, attempts>>

\* renderer.add(chr, color, bg_color) and the next x.
FeedCell(c) ==
    /\ SetRenderer(add(self, c.chr, c.color, c.bg_color))
    /\ cells' = Append(cells, c)
    /\ x' = x + 1
    /\ UNCHANGED <<y, pc, out, partial, status, rows, attempts>>

\* The write with its error dropped (`let _ = writeln!(..)`): the loop goes on.
WriteLine_error_dropped ==
    LET built == build(self)
    IN  /\ \/ /\ attempts' = Append(attempts, [row |-> y, ok |-> TRUE])
              /\ out' = Append(out, writeln(built.buffer))
              /\ partial' = partial
           \/ /\ attempts' = Append(attempts, [row |-> y, ok |-> FALSE])
              /\ partial' \in {<<>>, built.buffer}
              /\ out' = out
        /\ SetRenderer(clear(built))
        /\ rows' = Append(rows, cells)
        /\ cells' = <<>>
        /\ x' = 0
        /\ y' = y + 1
        /\ UNCHANGED <<pc, status>>

\* `writeln!(out, "{}", renderer.build())?; renderer.clear();` and the next y.
\* The write either succeeds, or fails after writing nothing or after writing
\* the text without its newline; `?` then returns the error.
WriteLine ==
    LET built == build(self)
    IN  \/ /\ attempts' = Append(attempts, [row |-> y, ok |-> TRUE])
           /\ out' = Append(out, writeln(built.buffer))
           /\ SetRenderer(clear(built))
           /\ rows' = Append(rows, cells)
           /\ cells' = <<>>
           /\ x' = 0
           /\ y' = y + 1
           /\ UNCHANGED <<pc, status, partial>>
        \/ /\ attempts' = Append(attempts, [row |-> y, ok |-> FALSE])
           /\ partial' \in {<<>>, built.buffer}
           /\ status' = "err"
           /\ pc' = "done"
           /\ SetRenderer(built)
           /\ UNCHANGED <<out, rows, cells, x, y>>

\* display: the dispatch on the method, and `LineRenderer::new()`.
Display ==
    /\ pc = "display"
    /\ pc' = IF shading.kind = "Half" THEN "half" ELSE "simple"
    /\ SetRenderer(new)
    /\ UNCHANGED <<img, shading, x, y, out, partial, status, cells, rows, reads,
                   attempts, arg, ret>>

\* display_stream_simple: one turn of the inner loop.
SimpleCell ==
    /\ pc = "simple"
    /\ y < simple_rows(img.h)
    /\ x < img.w
    /\ reads' = Append(reads, <<x, y>>)
    /\ IF in_bounds(x, y)
       THEN FeedCell(simple_cell(img.px[<<x, y>>], shading))
       ELSE Panic
    /\ UNCHANGED <<img, shading, arg, ret>>

\* display_stream_simple: the end of a row.
SimpleLine ==
    /\ pc = "simple"
    /\ y < simple_rows(img.h)
    /\ x = img.w
    /\ WriteLine
    /\ UNCHANGED <<img, shading, reads, arg, ret>>

\* display_stream_simple: Ok(()) after the last row.
SimpleReturn ==
    /\ pc = "simple"
    /\ y = simple_rows(img.h)
    /\ pc' = "done"
    /\ status' = "ok"
    /\ UNCHANGED <<img, shading, x, y, render_vars, out, partial, cells, rows,
                   reads, attempts, arg, ret>>

\* display_stream_half: one turn of the inner loop.
HalfCell ==
    /\ pc = "half"
    /\ y < half_rows(img.h)
    /\ x < img.w
    /\ IF ~in_bounds(x, upper_row(y))
       THEN reads' = Append(reads, <<x, upper_row(y)>>) /\ Panic
       ELSE /\ reads' = reads \o << <<x, upper_row(y)>>, <<x, lower_row(y)>> >>
            /\ IF in_bounds(x, lower_row(y))
               THEN FeedCell(half_cell(img.px[<<x, upper_row(y)>>],
                                       img.px[<<x, lower_row(y)>>]))
               ELSE Panic
    /\ UNCHANGED <<img, shading, arg, ret>>

\* display_stream_half: the end of a row.
HalfLine ==
    /\ pc = "half"
    /\ y < half_rows(img.h)
    /\ x = img.w
    /\ WriteLine
    /\ UNCHANGED <<img, shading, reads, arg, ret>>

\* display_stream_half: Ok(()) after the last row.
HalfReturn ==
    /\ pc = "half"
    /\ y = half_rows(img.h)
    /\ pc' = "done"
    /\ status' = "ok"
    /\ UNCHANGED <<img, shading, x, y, render_vars, out, partial, cells, rows,
                   reads, attempts, arg, ret>>

Init ==
    /\ img \in Images
    /\ shading \in Methods
    /\ x = 0
    /\ y = 0
    /\ pc = "display"
    /\ buffer = <<>>
    /\ current_color = None
    /\ current_bg_color = None
    /\ out = <<>>
    /\ partial = <<>>
    /\ status = "running"
    /\ cells = <<>>
    /\ rows = <<>>
    /\ reads = <<>>
    /\ attempts = <<>>
    /\ arg = None
    /\ ret = None

Next ==
    \/ Display
    \/ SimpleCell
    \/ SimpleLine
    \/ SimpleReturn
    \/ HalfCell
    \/ HalfLine
    \/ HalfReturn

Spec == Init /\ [][Next]_vars

----------------------------------------------------------------------------
(* The LineRenderer alone: add, build and clear on any row of cells *)

EmitGlyphs == {9600, 49}
EmitColors == {<<255, 255, 255>>, <<0, 0, 0>>}
EmitBgColors == {None, Some(<<0, 0, 0>>), Some(<<10, 200, 30>>)}

EmitCells ==
    {Cell(g, Some(f), b) : g \in EmitGlyphs, f \in EmitColors, b \in EmitBgColors}

Idle ==
    /\ img = None
    /\ shading = None
    /\ x = 0
    /\ y = 0
    /\ partial = <<>>
    /\ status = "running"
    /\ rows = <<>>
    /\ reads = <<>>
    /\ attempts = <<>>

idle_vars == <<img, shading, x, y, partial, status, rows, reads, attempts>>

EmitInit ==
    /\ Idle
    /\ pc = "emit"
    /\ buffer = new.buffer
    /\ current_color = new.current_color
    /\ current_bg_color = new.current_bg_color
    /\ out = <<>>
    /\ cells = <<>>
    /\ arg = None
    /\ ret = None

\* renderer.add(chr, Some(color), bg_color)
EmitAdd ==
    /\ pc = "emit"
    /\ Len(cells) < MaxCells
    /\ \E c \in EmitCells :
          /\ SetRenderer(add(self, c.chr, c.color, c.bg_color))
          /\ cells' = Append(cells, c)
    /\ UNCHANGED <<idle_vars, pc, out, arg, ret>>

\* renderer.build(): the String it returns is kept in out.
EmitBuild ==
    /\ pc = "emit"
    /\ SetRenderer(build(self))
    /\ out' = <<build(self).buffer>>
    /\ pc' = "built"
    /\ UNCHANGED <<idle_vars, cells, arg, ret>>

\* renderer.clear()
EmitClear ==
    /\ pc \in {"emit", "built"}
    /\ SetRenderer(clear(self))
    /\ cells' = <<>>
    /\ out' = <<>>
    /\ pc' = "emit"
    /\ UNCHANGED <<idle_vars, arg, ret>>

EmitNext == EmitAdd \/ EmitBuild \/ EmitClear

SpecEmit == EmitInit /\ [][EmitNext]_vars

----------------------------------------------------------------------------
(* shade alone, on every luminance *)

\* "#", " é@", "@-@"
ShadeMethods ==
    {Ascii, Blocks, Custom(Some(<<35>>)), Custom(Some(CUSTOM_RAMP)),
     Custom(Some(<<64, 45, 64>>))}

\* The gray pixel of luminance g.
GrayPixel(g) == <<g, g, g, 255>>

\* The position in the ramp of the character nth(..).unwrap_or(last) yields.
shade_pos(gray, shade_map) ==
    IF is_some(chars_nth(shade_map, shade_index(gray, shade_map)))
    THEN shade_index(gray, shade_map)
    ELSE Len(shade_map) - 1

\* shade(pixel, method), with the luminance it computed and the position of
\* the character it returned.
Shaded(pixel, shade_method) ==
    LET gray == grayscale_value(pixel)
    IN  [pixel |-> pixel,
         gray |-> gray,
         chr |-> shade(pixel, shade_method),
         pos |-> shade_pos(gray, shade_map_of(shade_method))]

\* Shaded, evaluated once for every gray pixel and every method.
ShadedGray == [m \in ShadeMethods, g \in 0 .. 255 |-> Shaded(GrayPixel(g), m)]

ShadeInit ==
    /\ Idle
    /\ pc = "shade"
    /\ buffer = <<>>
    /\ current_color = None
    /\ current_bg_color = None
    /\ out = <<>>
    /\ cells = <<>>
    /\ arg \in [pixel : {GrayPixel(g) : g \in 0 .. 255}, method : ShadeMethods]
    /\ ret = <<>>

\* shade(pixel, method)
Shade ==
    /\ pc = "shade"
    /\ Len(ret) = 0
    /\ ret' = <<ShadedGray[arg.method, arg.pixel[1]]>>
    /\ UNCHANGED <<idle_vars, pc, render_vars, out, cells, arg>>

\* shade(pixel2, method) for a pixel that is at least as bright.
ShadeBrighter ==
    /\ pc = "shade"
    /\ Len(ret) = 1
    /\ \E g \in arg.pixel[1] .. 255 :
          ret' = Append(ret, ShadedGray[arg.method, g])
    /\ UNCHANGED <<idle_vars, pc, render_vars, out, cells, arg>>

ShadeNext == Shade \/ ShadeBrighter

SpecShade == ShadeInit /\ [][ShadeNext]_vars

----------------------------------------------------------------------------
(* The cell of one pixel (simple) or of one pair of pixels (half) *)

CellPixels ==
    {<<r, g, b, a>> : r \in {0, 6, 8, 255}, g \in {0, 6, 8, 255},
                      b \in {0, 255}, a \in {0, 128, 255}}

CellInit ==
    /\ Idle
    /\ pc = "cell"
    /\ buffer = <<>>
    /\ current_color = None
    /\ current_bg_color = None
    /\ out = <<>>
    /\ cells = <<>>
    /\ \/ arg \in [kind : {"half"}, upper : CellPixels, lower : CellPixels]
       \/ arg \in [kind : {"simple"}, pixel : CellPixels, method : Methods \ {Half}]
    /\ ret = None

\* The cell display_stream_half hands to add for the pair (upper, lower).
HalfCellOf ==
    /\ pc = "cell"
    /\ arg.kind = "half"
    /\ ret = None
    /\ ret' = Some(half_cell(arg.upper, arg.lower))
    /\ UNCHANGED <<idle_vars, pc, render_vars, out, cells, arg>>

\* The cell display_stream_simple hands to add for the pixel.
SimpleCellOf ==
    /\ pc = "cell"
    /\ arg.kind = "simple"
    /\ ret = None
    /\ ret' = Some(simple_cell(arg.pixel, arg.method))
    /\ UNCHANGED <<idle_vars, pc, render_vars, out, cells, arg>>

CellNext == HalfCellOf \/ SimpleCellOf

SpecCell == CellInit /\ [][CellNext]_vars

----------------------------------------------------------------------------
(* Reading a text as a terminal does *)

Tok(t, c, rgb) == [t |-> t, c |-> c, rgb |-> rgb]
GlyphTok(c) == Tok("glyph", c, <<>>)
ResetTok == Tok("reset", 0, <<>>)
FgTok(rgb) == Tok("fg", 0, rgb)
BgTok(rgb) == Tok("bg", 0, rgb)

RECURSIVE CsiEnd(_, _)
\* The index of the first character at or after j that is no digit and no ';'.
CsiEnd(s, j) ==
    IF j > Len(s) THEN j
    ELSE IF s[j] \in 48 .. 57 \/ s[j] = 59 THEN CsiEnd(s, j + 1)
    ELSE j

RECURSIVE CsiParams(_, _, _, _)
\* The numbers of s[i .. j - 1], separated by ';'.
CsiParams(s, i, j, cur) ==
    IF i >= j THEN <<cur>>
    ELSE IF s[i] = 59 THEN <<cur>> \o CsiParams(s, i + 1, j, 0)
    ELSE CsiParams(s, i + 1, j, cur * 10 + (s[i] - 48))

SgrTok(p) ==
    IF p = <<0>> THEN ResetTok
    ELSE IF Len(p) = 5 /\ p[1] = 38 /\ p[2] = 2 THEN FgTok(<<p[3], p[4], p[5]>>)
    ELSE IF Len(p) = 5 /\ p[1] = 48 /\ p[2] = 2 THEN BgTok(<<p[3], p[4], p[5]>>)
    ELSE Tok("other", 0, p)

RECURSIVE TokensFrom(_, _)
TokensFrom(s, i) ==
    IF i > Len(s) THEN <<>>
    ELSE IF s[i] = 27 /\ i < Len(s) /\ s[i + 1] = 91
              /\ CsiEnd(s, i + 2) <= Len(s) /\ s[CsiEnd(s, i + 2)] = 109
         THEN <<SgrTok(CsiParams(s, i + 2, CsiEnd(s, i + 2), 0))>>
                  \o TokensFrom(s, CsiEnd(s, i + 2) + 1)
         ELSE <<GlyphTok(s[i])>> \o TokensFrom(s, i + 1)

\* The escape sequences and glyphs of a text, in order.
Tokens(s) == TokensFrom(s, 1)

IsGlyph(tok) == tok.t = "glyph"

\* The glyphs of a text, in order.
Glyphs(s) ==
    LET g == SelectSeq(Tokens(s), IsGlyph)
    IN  [i \in 1 .. Len(g) |-> g[i].c]

\* The position in toks of its n-th glyph.
NthGlyph(toks, n) ==
    CHOOSE j \in 1 .. Len(toks) :
        /\ IsGlyph(toks[j])
        /\ Cardinality({k \in 1 .. j : IsGlyph(toks[k])}) = n

\* The (foreground, background) pair of a cell.
Style(c) == <<c.color, c.bg_color>>

\* Cell i is the first of a maximal run of constant style.
RunStart(cs, i) == i = 1 \/ Style(cs[i]) # Style(cs[i - 1])

RunCount(cs) == Cardinality({i \in 1 .. Len(cs) : RunStart(cs, i)})

\* Glyph n of toks has an escape sequence immediately before it.
StyledAt(toks, n) == NthGlyph(toks, n) > 1 /\ ~IsGlyph(toks[NthGlyph(toks, n) - 1])

OneStyle(cs) == \A i \in 1 .. Len(cs) : Style(cs[i]) = Style(cs[1])

RECURSIVE ShownFrom(_, _, _, _)
\* The cells a terminal shows for toks[i ..], starting with foreground fg and
\* background bg (None is the terminal's default): a reset clears both, a
\* set-foreground or set-background sets one, a glyph is shown in the current
\* pair.
ShownFrom(toks, i, fg, bg) ==
    IF i > Len(toks) THEN <<>>
    ELSE IF toks[i].t = "glyph"
         THEN <<Cell(toks[i].c, fg, bg)>> \o ShownFrom(toks, i + 1, fg, bg)
    ELSE IF toks[i].t = "reset" THEN ShownFrom(toks, i + 1, None, None)
    ELSE IF toks[i].t = "fg" THEN ShownFrom(toks, i + 1, Some(toks[i].rgb), bg)
    ELSE IF toks[i].t = "bg" THEN ShownFrom(toks, i + 1, fg, Some(toks[i].rgb))
    ELSE ShownFrom(toks, i + 1, fg, bg)

\* The cells a terminal in its default state shows for a text.
Shown(s) == ShownFrom(Tokens(s), 1, None, None)

----------------------------------------------------------------------------
(* Claims on the LineRenderer (SpecEmit) *)

\* C1 (as claimed). Emitter span count: the text built from a row of cells
\* with K maximal runs of constant (foreground, background) holds the row's
\* glyphs in order, has an escape sequence immediately before a glyph exactly
\* when that glyph is the first of a run (so K style-change points), and ends
\* with exactly one reset after the last glyph.
C1_SpanCount ==
    pc = "built" =>
        LET toks == Tokens(out[1])
            n == Len(cells)
        IN  /\ Glyphs(out[1]) = [i \in 1 .. n |-> cells[i].chr]
            /\ \A i \in 1 .. n : StyledAt(toks, i) <=> RunStart(cells, i)
            /\ Cardinality({i \in 1 .. n : StyledAt(toks, i)}) = RunCount(cells)
            /\ toks[Len(toks)] = ResetTok
            /\ Len(toks) > 1 => IsGlyph(toks[Len(toks) - 1])

\* C2. Emitter coalescing: N >= 1 cells that share one (foreground,
\* background) pair build to one set-foreground, one set-background when a
\* background is present, the N glyphs with nothing between them, one reset.
C2_Coalescing ==
    (pc = "built" /\ Len(cells) >= 1 /\ OneStyle(cells)) =>
        Tokens(out[1]) =
            <<FgTok(unwrap(cells[1].color))>>
                \o (IF is_some(cells[1].bg_color)
                    THEN <<BgTok(unwrap(cells[1].bg_color))>> ELSE <<>>)
                \o [i \in 1 .. Len(cells) |-> GlyphTok(cells[i].chr)]
                \o <<ResetTok>>

\* C2 witness: a built row of at least two cells of one style with a background.
C2_Witness ==
    /\ pc = "built"
    /\ Len(cells) >= 2
    /\ OneStyle(cells)
    /\ is_some(cells[1].bg_color)
    /\ cells[1].chr # cells[2].chr

\* C11 (as claimed). Displayed style matches the cell: the text built from a
\* row of cells on a cleared emitter, read as a terminal reads it, shows every
\* glyph with its cell's foreground and with its cell's background (the
\* default background when the cell has none); so after the reset at a run
\* boundary an unchanged foreground or background is set again.
C11_DisplayedStyle ==
    pc = "built" => Shown(out[1]) = cells

----------------------------------------------------------------------------
(* Claims on the cells (SpecCell) *)

\* A pixel's colour with every channel scaled by alpha / 255 and truncated.
Premultiplied(p) ==
    <<(p[1] * p[4]) \div 255, (p[2] * p[4]) \div 255, (p[3] * p[4]) \div 255>>

HalfDone == pc = "cell" /\ arg.kind = "half" /\ is_some(ret)
SimpleDone == pc = "cell" /\ arg.kind = "simple" /\ is_some(ret)

\* C3 (as claimed). Half-block symmetry: identical upper and lower pixels, of
\* any alpha, give the full block with the upper colour and no background.
C3_SymmetryAnyAlpha ==
    (HalfDone /\ arg.upper = arg.lower) =>
        unwrap(ret) = Cell(9608, Some(Premultiplied(arg.upper)), None)

\* C3 (amended). Identical upper and lower pixels give one colour and no
\* background: the full block with the premultiplied upper colour when their
\* alpha is not 0, and a space with foreground (0, 0, 0) when it is 0.
C3_Symmetry ==
    (HalfDone /\ arg.upper = arg.lower) =>
        unwrap(ret) =
            IF arg.upper[4] # 0
            THEN Cell(9608, Some(Premultiplied(arg.upper)), None)
            ELSE Cell(32, Some(<<0, 0, 0>>), None)

\* C3 witness: the cell of two identical half-transparent coloured pixels.
C3_Witness ==
    /\ HalfDone
    /\ arg.upper = arg.lower
    /\ arg.upper = <<255, 8, 0, 128>>
    /\ unwrap(ret).chr = 9608

\* The ramp of a method, as the specification tabulates it.
RampOf(m) ==
    CASE m.kind = "Ascii" -> RAMP_ASCII
      [] m.kind = "Blocks" -> RAMP_BLOCKS
      [] m.kind = "Custom" -> unwrap(m.map)

\* C4 (as claimed). Simple strategy on transparent pixels: a pixel of alpha 0,
\* whatever its R, G, B, gives the darkest ramp character with foreground
\* (0, 0, 0) and no background.
C4_TransparentIsDarkest ==
    (SimpleDone /\ arg.pixel[4] = 0) =>
        unwrap(ret) = Cell(RampOf(arg.method)[1], Some(<<0, 0, 0>>), None)

SquaredDistance(a, b) ==
    (a[1] - b[1]) * (a[1] - b[1]) + (a[2] - b[2]) * (a[2] - b[2])
        + (a[3] - b[3]) * (a[3] - b[3])

\* Rule 5 of the decision table applies: no earlier rule matches.
Rule5(u, l) ==
    /\ u[4] # 0
    /\ l[4] # 0
    /\ SquaredDistance(Premultiplied(u), Premultiplied(l)) >= 100

\* The cell the decision table gives: the first matching rule.
TableCell(u, l) ==
    IF u[4] = 0 /\ l[4] = 0
    THEN Cell(32, Some(Premultiplied(u)), None)
    ELSE IF SquaredDistance(Premultiplied(u), Premultiplied(l)) < 100
    THEN Cell(9608, Some(Premultiplied(u)), None)
    ELSE IF l[4] = 0
    THEN Cell(9600, Some(Premultiplied(u)), None)
    ELSE IF u[4] = 0
    THEN Cell(9604, Some(Premultiplied(l)), None)
    ELSE Cell(9600, Some(Premultiplied(u)), Some(Premultiplied(l)))

\* C9. Half-block decision table: the cell of every pair of pixels is the one
\* of the first matching rule (both transparent; premultiplied colours closer
\* than 10.0; lower transparent; upper transparent; otherwise), and it has a
\* background exactly when rule 5 applies.
C9_DecisionTable ==
    HalfDone =>
        /\ unwrap(ret) = TableCell(arg.upper, arg.lower)
        /\ is_some(unwrap(ret).bg_color) <=> Rule5(arg.upper, arg.lower)

\* C9 witness: the upper pixel is opaque black, the lower one transparent with
\* colour left in its channels: rule 2 applies before rule 3.
C9_Witness ==
    /\ HalfDone
    /\ arg.upper = <<0, 0, 0, 255>>
    /\ arg.lower = <<255, 255, 255, 0>>
    /\ unwrap(ret).chr = 9608

----------------------------------------------------------------------------
(* Claims on shade (SpecShade) *)

\* The character of a ramp at index i, the last one for an index past the end.
Clamped(ramp, i) == ramp[Min(i, Len(ramp) - 1) + 1]

\* C5 (as claimed). Shade index: shade returns ramp[floor(gray / 256 * L)], L
\* the number of characters of the ramp, clamped to the last character, and
\* floor(gray / 255 * L) with the same clamp selects the same character.
C5_ShadeIndex ==
    (pc = "shade" /\ Len(ret) >= 1) =>
        LET ramp == RampOf(arg.method)
            gray == ret[1].gray
        IN  /\ ret[1].chr = Clamped(ramp, (gray * Len(ramp)) \div 256)
            /\ ret[1].chr = Clamped(ramp, (gray * Len(ramp)) \div 255)

\* C6. Shade monotonicity: of two luminances g1 <= g2 shaded with one ramp,
\* the character selected for g2 is at a position of the ramp at or after the
\* one selected for g1 (every luminance 0..255 is the luminance of a pixel
\* shaded here).
C6_Monotonic ==
    (pc = "shade" /\ Len(ret) = 2) =>
        /\ \A i \in 1 .. 2 :
              /\ ret[i].gray = ret[i].pixel[1]
              /\ ret[i].chr = RampOf(arg.method)[ret[i].pos + 1]
        /\ ret[1].gray <= ret[2].gray => ret[1].pos <= ret[2].pos

\* C6 witness: two luminances shaded with the Blocks ramp to different
\* characters.
C6_Witness ==
    /\ pc = "shade"
    /\ Len(ret) = 2
    /\ arg.method = Blocks
    /\ ret[1].gray < ret[2].gray
    /\ ret[1].pos = 1
    /\ ret[2].pos = 3

----------------------------------------------------------------------------
(* Claims on display_stream_simple and display_stream_half (Spec) *)

RECURSIVE AddAll(_, _)
\* The emitter r after add of every cell of cs, in order.
AddAll(r, cs) ==
    IF cs = <<>> THEN r
    ELSE AddAll(add(r, Head(cs).chr, Head(cs).color, Head(cs).bg_color), Tail(cs))

\* The text a fresh emitter builds for the cells cs alone.
FreshText(cs) == build(AddAll(new, cs)).buffer

Running == pc \in {"simple", "half"}
Started == pc \in {"simple", "half", "done"}

\* The rows display_stream_* writes for the image.
RowsOf == IF shading.kind = "Half" THEN img.h \div 2 ELSE img.h

\* C7. No style or emitter state crosses a row boundary: every line written
\* ends with the reset immediately before the newline, the emitter begins
\* every row empty with no foreground and no background recorded, and the
\* text of a row is the text a fresh emitter builds for that row's cells.
C7_RowBoundary ==
    Started =>
        /\ Len(rows) = Len(out)
        /\ \A i \in 1 .. Len(out) :
              LET toks == Tokens(out[i])
              IN  /\ Len(toks) >= 2
                  /\ toks[Len(toks) - 1] = ResetTok
                  /\ toks[Len(toks)] = GlyphTok(10)
                  /\ out[i] = FreshText(rows[i]) \o <<10>>
        /\ (Running /\ x = 0) =>
              (buffer = <<>> /\ current_color = None /\ current_bg_color = None)
        /\ Running => self = AddAll(new, cells)

\* C7 witness: in the second row of a half-block rendering, the first cell has
\* the foreground and the background of the last cell of the first row.
C7_Witness ==
    /\ pc = "half"
    /\ Len(out) = 1
    /\ x = 1
    /\ is_some(cells[1].bg_color)
    /\ Style(cells[1]) = Style(rows[1][Len(rows[1])])

\* C8. Write failure aborts rendering: rows are attempted once each and in
\* order; a failed write is the last one attempted and the function has then
\* returned the error; the lines of the rows before it are as they were
\* written.
C8_WriteFailure ==
    Started =>
        /\ \A i \in 1 .. Len(attempts) :
              /\ attempts[i].row = i - 1
              /\ ~attempts[i].ok =>
                    (i = Len(attempts) /\ status = "err" /\ pc = "done")
        /\ status = "err" =>
              (Len(attempts) >= 1 /\ ~attempts[Len(attempts)].ok
                   /\ Len(out) = Len(attempts) - 1)
        /\ \A i \in 1 .. Len(out) :
              attempts[i].ok /\ out[i] = FreshText(rows[i]) \o <<10>>

\* C8 witness: the write of a row fails after a line was written and before
\* the last row.
C8_Witness ==
    /\ status = "err"
    /\ pc = "done"
    /\ Len(out) >= 1
    /\ Len(attempts) < RowsOf

\* The pixels display_stream_half reads for an image of width w, up to and
\* without cell (cx, cy): (x, 2y) then (x, 2y + 1), row after row.
HalfReads(w, cx, cy) ==
    [k \in 1 .. 2 * (cy * w + cx) |->
        <<((k - 1) \div 2) % w, 2 * ((k - 1) \div (2 * w)) + ((k - 1) % 2)>>]

\* The glyphs of line cy of the half-block rendering of the image.
HalfGlyphs(cy) ==
    [i \in 1 .. img.w |->
        half_cell(img.px[<<i - 1, 2 * cy>>], img.px[<<i - 1, 2 * cy + 1>>]).chr]

\* C10. Half-block row traversal: the lines are written in increasing order
\* of y, line y holds exactly W glyphs, glyph x computed from the pixels
\* (x, 2y) and (x, 2y + 1); no pixel outside the image and, when H is odd, no
\* pixel of the last row is read; a rendering that returns Ok has written
\* exactly floor(H / 2) lines.
C10_HalfTraversal ==
    (Started /\ shading.kind = "Half") =>
        /\ status # "panic"
        /\ \A i \in 1 .. Len(out) :
              Glyphs(out[i]) = HalfGlyphs(i - 1) \o <<10>>
        /\ Running => reads = HalfReads(img.w, x, y)
        /\ \A k \in 1 .. Len(reads) :
              /\ reads[k][1] < img.w
              /\ reads[k][2] < img.h
              /\ img.h % 2 = 1 => reads[k][2] # img.h - 1
        /\ status = "ok" =>
              /\ Len(out) = img.h \div 2
              /\ reads = HalfReads(img.w, 0, img.h \div 2)

\* C10 witness: an image of odd height 5 and width 2 rendered to the end.
C10_Witness ==
    /\ shading.kind = "Half"
    /\ status = "ok"
    /\ img.h = 5
    /\ img.w = 2
    /\ Len(out) = 2
    /\ Len(reads) = 8

====
